---- MODULE Spec2Model ----
(***************************************************************************)
(* Labeled types (rust-refactor/src/analysis/labeled_ty.rs).               *)
(*                                                                         *)
(* A LabeledTyS node is { ty, args, label }.  Nodes live in a              *)
(* DroplessArena and are referred to by reference; here a reference is the *)
(* 1-based position of the node in the arena's allocation sequence, so     *)
(* reference identity (sharing) is visible.  The callbacks handed to       *)
(* label / relabel / for_each_label are FnMut closures: besides returning  *)
(* a value they may keep state, which is modelled by the log of their      *)
(* invocations.                                                            *)
(***************************************************************************)
EXTENDS Integers, Sequences, FiniteSets, TLC

VARIABLES nodes, nslices, held, op, inp, ret, calls, status, nops

vars == <<nodes, nslices, held, op, inp, ret, calls, status, nops>>

\* Number of context operations one behaviour performs.
MaxOps == 3

\* Number of operations of a behaviour that only builds and traverses.
MaxBuilds == 2

(***************************************************************************)
(* The host type system (rustc::ty), as far as labeled_ty.rs looks at it.  *)
(* A host type is [sty, def, substs, idx]: sty is the TypeVariants         *)
(* constructor, def the item an Adt/FnDef names, substs the constructor's  *)
(* component list (Substs for TyAdt/TyFnDef/TyClosure/TyProjection, the    *)
(* element type for the pointer-like kinds, inputs_and_output for TyFnPtr, *)
(* the elements for TyTuple) and idx the ParamTy index.  Substs may hold   *)
(* regions next to types.                                                  *)
(***************************************************************************)
HT(sty, def, substs, idx) == [sty |-> sty, def |-> def, substs |-> substs, idx |-> idx]

Region == HT("Region", "", <<>>, 0)

TBool  == HT("TyBool", "", <<>>, 0)
TChar  == HT("TyChar", "", <<>>, 0)
TInt   == HT("TyInt", "", <<>>, 0)
TUint  == HT("TyUint", "", <<>>, 0)
TFloat == HT("TyFloat", "", <<>>, 0)
TStr   == HT("TyStr", "", <<>>, 0)
TNever == HT("TyNever", "", <<>>, 0)

TParam(i) == HT("TyParam", "", <<>>, i)

TArray(e)  == HT("TyArray", "", <<e>>, 0)
TSlice(e)  == HT("TySlice", "", <<e>>, 0)
TRawPtr(e) == HT("TyRawPtr", "", <<e>>, 0)
TRef(e)    == HT("TyRef", "", <<e>>, 0)

TAdt(d, substs)   == HT("TyAdt", d, substs, 0)
TFnDef(d, substs) == HT("TyFnDef", d, substs, 0)
TFnPtr(io)        == HT("TyFnPtr", "", io, 0)
TTuple(elems)     == HT("TyTuple", "", elems, 0)

TDynamic            == HT("TyDynamic", "", <<>>, 0)
TClosure(substs)    == HT("TyClosure", "", substs, 0)
TProjection(substs) == HT("TyProjection", "", substs, 0)
TAnon               == HT("TyAnon", "", <<>>, 0)
TInfer              == HT("TyInfer", "", <<>>, 0)
TError              == HT("TyError", "", <<>>, 0)

\* labeled_ty.rs:69-75
NoArgKinds == {"TyBool", "TyChar", "TyInt", "TyUint", "TyFloat", "TyStr", "TyNever"}

\* labeled_ty.rs:113-119
UnsupportedKinds ==
    {"TyDynamic", "TyClosure", "TyProjection", "TyAnon", "TyParam", "TyInfer", "TyError"}

\* The kinds that dereference to one element type (labeled_ty.rs:82-97).
ElemKinds == {"TyArray", "TySlice", "TyRawPtr", "TyRef"}

\* Substs::types(): the type entries of a substitution list, in order; the
\* regions are skipped.
types(substs) == SelectSeq(substs, LAMBDA k : k.sty # "Region")

Wrapper(t) == TAdt("Wrapper", <<t>>)
Pair(a, b) == TAdt("Pair", <<a, b>>)

\* The host types handed to label in the build-only specification: every
\* TypeVariants constructor occurs.
HostTypes ==
    { TBool, TChar, TInt, TUint, TFloat, TStr, TNever,
      TParam(0), TParam(1), TParam(2),
      TArray(TInt), TSlice(TRef(TBool)), TRawPtr(TParam(0)), TRef(TStr),
      Wrapper(TParam(0)), Wrapper(TInt), Pair(TBool, TInt),
      TAdt("Cow", <<Region, TParam(1), Region, TRef(TChar)>>),
      TAdt("Unit", <<>>),
      TFnDef("id", <<TParam(0)>>), TFnDef("cmp", <<Region, TUint, TFloat>>),
      TFnPtr(<<TInt, TParam(1), TBool>>), TFnPtr(<<TNever>>),
      TTuple(<<>>), TTuple(<<TBool, TRef(TParam(0))>>),
      TDynamic, TClosure(<<TInt, TRef(TBool)>>), TProjection(<<TParam(0)>>),
      TAnon, TInfer, TError }

\* The host types handed to label where all operations are combined.
CoreTypes ==
    { TInt, TParam(0), TParam(1), Wrapper(TParam(0)),
      Pair(TRef(TParam(0)), TParam(0)) }

HostTypeLists == { <<TInt, TBool>>, <<TParam(1), TRef(TParam(0))>>, <<>> }

(***************************************************************************)
(* Labels and callbacks.  L is a type parameter of the source; the labels  *)
(* used here are records [tag, n].                                         *)
(***************************************************************************)
Lbl(tag, n) == [tag |-> tag, n |-> n]

KindName(ty) == IF ty.def # "" THEN ty.def ELSE ty.sty

\* Label callbacks F: FnMut(Ty) -> L.  "kind_name" is a pure function of the
\* host kind name; "counter" is a closure that numbers its invocations.
LabelFns == {"kind_name", "counter"}

\* Relabel callbacks F: FnMut(&L2) -> L.  "incr" is pure; "counter" numbers
\* its invocations.
RelabelFns == {"incr", "counter"}

\* The machine state threaded through one operation: the arena's nodes, the
\* number of arena slices allocated, the callback's invocation log, and
\* whether the thread is still running (FALSE once it panicked).
Machine(ns, sl) == [nodes |-> ns, nslices |-> sl, calls |-> <<>>, ok |-> TRUE]

\* f(ty) at labeled_ty.rs:66
call_label_fn(m, f, ty) ==
    [ m |-> [m EXCEPT !.calls = Append(@, ty)],
      v |-> IF f = "kind_name" THEN Lbl(KindName(ty), 0) ELSE Lbl("", Len(m.calls)) ]

\* func(&lty.label) at labeled_ty.rs:152
call_relabel_fn(m, func, l) ==
    [ m |-> [m EXCEPT !.calls = Append(@, l)],
      v |-> IF func = "incr" THEN Lbl(l.tag, l.n + 1) ELSE Lbl(l.tag, Len(m.calls)) ]

\* callback(&self.label) at labeled_ty.rs:27
call_visit(m, l) == [m EXCEPT !.calls = Append(@, l)]

(***************************************************************************)
(* LabeledTyCtxt                                                           *)
(***************************************************************************)
\* mk_slice: the empty slice is the static &[]; anything else is copied into
\* a fresh arena slice.
mk_slice(m, ltys) ==
    IF Len(ltys) = 0
    THEN [m |-> m, rs |-> <<>>]
    ELSE [m |-> [m EXCEPT !.nslices = @ + 1], rs |-> ltys]

\* mk: allocates one node, without looking at ty, args or label.
mk(m, ty, args, l) ==
    [ m |-> [m EXCEPT !.nodes = Append(@, [ty |-> ty, args |-> args, label |-> l])],
      r |-> Len(m.nodes) + 1 ]

RECURSIVE label(_, _, _)
RECURSIVE label_map(_, _, _)
RECURSIVE for_each_label(_, _)
RECURSIVE for_each_arg(_, _)
RECURSIVE subst(_, _, _)
RECURSIVE subst_map(_, _, _)
RECURSIVE relabel(_, _, _)
RECURSIVE relabel_map(_, _, _)
RECURSIVE subst_slice(_, _, _)
RECURSIVE relabel_slice(_, _, _)

\* label_args with a function pointer's inputs only, its output left out.
label_args_inputs_only(ty) ==
    CASE ty.sty \in NoArgKinds       -> <<>>
      [] ty.sty = "TyAdt"            -> types(ty.substs)
      [] ty.sty \in ElemKinds        -> <<ty.substs[1]>>
      [] ty.sty = "TyFnDef"          -> types(ty.substs)
      [] ty.sty = "TyFnPtr"          -> SubSeq(ty.substs, 1, Len(ty.substs) - 1)
      [] ty.sty = "TyTuple"          -> ty.substs
      [] ty.sty \in UnsupportedKinds -> <<>>

\* The host types the match arm of label recurses into, in order.
label_args(ty) ==
    CASE ty.sty \in NoArgKinds       -> <<>>
      [] ty.sty = "TyAdt"            -> types(ty.substs)
      [] ty.sty \in ElemKinds        -> <<ty.substs[1]>>
      [] ty.sty = "TyFnDef"          -> types(ty.substs)
      [] ty.sty = "TyFnPtr"          -> ty.substs
      [] ty.sty = "TyTuple"          -> ty.substs
      [] ty.sty \in UnsupportedKinds -> <<>>

\* label with f(ty) evaluated after the arguments.
label_post(m, ty, f) ==
    IF ty.sty \in NoArgKinds \cup UnsupportedKinds
    THEN LET c == call_label_fn(m, f, ty) IN mk(c.m, ty, <<>>, c.v)
    ELSE LET as == label_map(m, label_args(ty), f)
             c  == call_label_fn(as.m, f, ty)
             sl == mk_slice(c.m, as.rs)
         IN  mk(sl.m, ty, sl.rs, c.v)

\* label: f(ty) first, then the arguments, then the node.
label(m, ty, f) ==
    LET c == call_label_fn(m, f, ty) IN
    IF ty.sty \in NoArgKinds \cup UnsupportedKinds
    THEN mk(c.m, ty, <<>>, c.v)
    ELSE LET as == label_map(c.m, label_args(ty), f)
             sl == mk_slice(as.m, as.rs)
         IN  mk(sl.m, ty, sl.rs, c.v)

\* tys.iter().map(|ty| self.label(ty, f)).collect::<Vec<_>>()
label_map(m, tys, f) ==
    IF Len(tys) = 0
    THEN [m |-> m, rs |-> <<>>]
    ELSE LET h == label(m, Head(tys), f)
             t == label_map(h.m, Tail(tys), f)
         IN  [m |-> t.m, rs |-> <<h.r>> \o t.rs]

label_slice(m, tys, f) ==
    LET as == label_map(m, tys, f) IN mk_slice(as.m, as.rs)

\* index without the bounds check's panic: the index wraps around.
index_wrapping(m, substs, idx) ==
    IF Len(substs) = 0
    THEN [m |-> [m EXCEPT !.ok = FALSE], r |-> 0]
    ELSE [m |-> m, r |-> substs[(idx % Len(substs)) + 1]]

\* substs[tp.idx as usize]: a bounds-checked index; out of range it panics.
index(m, substs, idx) ==
    IF idx < Len(substs)
    THEN [m |-> m, r |-> substs[idx + 1]]
    ELSE [m |-> [m EXCEPT !.ok = FALSE], r |-> 0]

\* subst that keeps a node's arguments instead of substituting into them.
subst_keep_args(m, lty, substs) ==
    LET n == m.nodes[lty] IN
    IF n.ty.sty = "TyParam"
    THEN index(m, substs, n.ty.idx)
    ELSE mk(m, n.ty, n.args, n.label)

\* subst that allocates a copy of the argument it substitutes.
subst_copy(m, lty, substs) ==
    LET n == m.nodes[lty] IN
    IF n.ty.sty = "TyParam"
    THEN LET a == index(m, substs, n.ty.idx)
         IN  IF a.m.ok
             THEN mk(a.m, m.nodes[a.r].ty, m.nodes[a.r].args, m.nodes[a.r].label)
             ELSE a
    ELSE LET sl == subst_slice(m, n.args, substs)
         IN  IF sl.m.ok THEN mk(sl.m, n.ty, sl.rs, n.label) ELSE [m |-> sl.m, r |-> 0]

\* subst: a TyParam node is replaced by substs[idx]; any other node is
\* allocated anew over its substituted arguments.  A panic unwinds: nothing
\* after it runs, what was allocated before it stays in the arena.
subst(m, lty, substs) ==
    LET n == m.nodes[lty] IN
    IF n.ty.sty = "TyParam"
    THEN index(m, substs, n.ty.idx)
    ELSE LET sl == subst_slice(m, n.args, substs)
         IN  IF sl.m.ok THEN mk(sl.m, n.ty, sl.rs, n.label) ELSE [m |-> sl.m, r |-> 0]

\* ltys.iter().map(|lty| self.subst(lty, substs)).collect::<Vec<_>>()
subst_map(m, ltys, substs) ==
    IF Len(ltys) = 0
    THEN [m |-> m, rs |-> <<>>]
    ELSE LET h == subst(m, Head(ltys), substs) IN
         IF ~h.m.ok THEN [m |-> h.m, rs |-> <<>>]
         ELSE LET t == subst_map(h.m, Tail(ltys), substs)
              IN  [m |-> t.m, rs |-> <<h.r>> \o t.rs]

subst_slice(m, ltys, substs) ==
    LET as == subst_map(m, ltys, substs)
    IN  IF as.m.ok THEN mk_slice(as.m, as.rs) ELSE as

\* relabel that gives the new node the old node's arguments.
relabel_shallow(m, lty, func) ==
    LET n == m.nodes[lty]
        c == call_relabel_fn(m, func, n.label)
    IN  mk(c.m, n.ty, n.args, c.v)

\* relabel with func called on the node's label before the arguments.
relabel_pre(m, lty, func) ==
    LET n    == m.nodes[lty]
        c    == call_relabel_fn(m, func, n.label)
        args == relabel_slice(c.m, n.args, func)
    IN  mk(args.m, n.ty, args.rs, c.v)

\* relabel: the arguments first, then func on the node's own label.
relabel(m, lty, func) ==
    LET n    == m.nodes[lty]
        args == relabel_slice(m, n.args, func)
        c    == call_relabel_fn(args.m, func, n.label)
    IN  mk(c.m, n.ty, args.rs, c.v)

\* ltys.iter().cloned().map(|lty| self.relabel(lty, func)).collect::<Vec<_>>()
relabel_map(m, ltys, func) ==
    IF Len(ltys) = 0
    THEN [m |-> m, rs |-> <<>>]
    ELSE LET h == relabel(m, Head(ltys), func)
             t == relabel_map(h.m, Tail(ltys), func)
         IN  [m |-> t.m, rs |-> <<h.r>> \o t.rs]

\* relabel_slice that returns the empty slice.
relabel_slice_empty(m, ltys, func) == [m |-> m, rs |-> <<>>]

relabel_slice(m, ltys, func) ==
    LET as == relabel_map(m, ltys, func) IN mk_slice(as.m, as.rs)

\* for_each_label with the callback called after the arguments' traversal.
for_each_label_post(m, lty) ==
    call_visit(for_each_arg(m, m.nodes[lty].args), m.nodes[lty].label)

\* LabeledTyS::for_each_label
for_each_label(m, lty) ==
    for_each_arg(call_visit(m, m.nodes[lty].label), m.nodes[lty].args)

for_each_arg(m, args) ==
    IF Len(args) = 0 THEN m
    ELSE for_each_arg(for_each_label(m, Head(args)), Tail(args))

(***************************************************************************)
(* The program: a caller that holds a LabeledTyCtxt over one arena and     *)
(* calls its operations, one after the other, on what earlier calls        *)
(* returned.                                                               *)
(***************************************************************************)
NoLabel == Lbl("", 0)

Input(tys, ltys, substs, f, l) ==
    [tys |-> tys, ltys |-> ltys, substs |-> substs, f |-> f, label |-> l]

Init ==
    /\ nodes = <<>>
    /\ nslices = 0
    /\ held = {<<>>}
    /\ op = "new"
    /\ inp = Input(<<>>, <<>>, <<>>, "", NoLabel)
    /\ ret = <<>>
    /\ calls = <<>>
    /\ status = "ok"
    /\ nops = 0

CanCall(max) == status = "ok" /\ nops < max

\* The state after an operation that ran machine state m and returned rs.
Done(name, in, m, rs) ==
    /\ nodes' = m.nodes
    /\ nslices' = m.nslices
    /\ calls' = m.calls
    /\ op' = name
    /\ inp' = in
    /\ status' = IF m.ok THEN "ok" ELSE "panic"
    /\ ret' = IF m.ok THEN rs ELSE <<>>
    /\ held' = IF m.ok THEN held \cup {rs} ELSE held
    /\ nops' = nops + 1

Refs == UNION { {s[i] : i \in 1..Len(s)} : s \in held }

CallLabel(S, max) ==
    /\ CanCall(max)
    /\ \E ty \in S, f \in LabelFns :
         LET r == label(Machine(nodes, nslices), ty, f)
         IN  Done("label", Input(<<ty>>, <<>>, <<>>, f, NoLabel), r.m, <<r.r>>)

CallLabelSlice(max) ==
    /\ CanCall(max)
    /\ \E tys \in HostTypeLists, f \in LabelFns :
         LET r == label_slice(Machine(nodes, nslices), tys, f)
         IN  Done("label_slice", Input(tys, <<>>, <<>>, f, NoLabel), r.m, r.rs)

CallForEachLabel(max) ==
    /\ CanCall(max)
    /\ \E lty \in Refs :
         LET m == for_each_label(Machine(nodes, nslices), lty)
         IN  Done("for_each_label", Input(<<>>, <<lty>>, <<>>, "", NoLabel), m, <<>>)

\* The triples handed to mk by hand: a base type, a held slice, a label.
MkTypes == { TBool, TParam(0), TRef(TInt) }

CallMk ==
    /\ CanCall(MaxOps)
    /\ \E ty \in MkTypes, args \in held :
         LET r == mk(Machine(nodes, nslices), ty, args, Lbl("manual", 0))
         IN  Done("mk", Input(<<ty>>, args, <<>>, "", Lbl("manual", 0)), r.m, <<r.r>>)

CallSubst ==
    /\ CanCall(MaxOps)
    /\ \E lty \in Refs, substs \in held :
         LET r == subst(Machine(nodes, nslices), lty, substs)
         IN  Done("subst", Input(<<>>, <<lty>>, substs, "", NoLabel), r.m, <<r.r>>)

CallSubstSlice ==
    /\ CanCall(MaxOps)
    /\ \E ltys \in held, substs \in held :
         LET r == subst_slice(Machine(nodes, nslices), ltys, substs)
         IN  Done("subst_slice", Input(<<>>, ltys, substs, "", NoLabel), r.m, r.rs)

CallRelabel ==
    /\ CanCall(MaxOps)
    /\ \E lty \in Refs, func \in RelabelFns :
         LET r == relabel(Machine(nodes, nslices), lty, func)
         IN  Done("relabel", Input(<<>>, <<lty>>, <<>>, func, NoLabel), r.m, <<r.r>>)

CallRelabelSlice ==
    /\ CanCall(MaxOps)
    /\ \E ltys \in held, func \in RelabelFns :
         LET r == relabel_slice(Machine(nodes, nslices), ltys, func)
         IN  Done("relabel_slice", Input(<<>>, ltys, <<>>, func, NoLabel), r.m, r.rs)

Next ==
    \/ CallLabel(CoreTypes, MaxOps)
    \/ CallLabelSlice(MaxOps)
    \/ CallMk
    \/ CallSubst
    \/ CallSubstSlice
    \/ CallRelabel
    \/ CallRelabelSlice
    \/ CallForEachLabel(MaxOps)

Spec == Init /\ [][Next]_vars

NextBuild ==
    \/ CallLabel(HostTypes, MaxBuilds)
    \/ CallLabelSlice(MaxBuilds)
    \/ CallForEachLabel(MaxBuilds)

SpecBuild == Init /\ [][NextBuild]_vars

(***************************************************************************)
(* Vocabulary of the properties: positions in a tree, traversal orders.    *)
(***************************************************************************)
RECURSIVE Paths(_, _)
RECURSIVE NodeAt(_, _, _)
RECURSIVE HostPaths(_)
RECURSIVE HostAt(_, _)
RECURSIVE TypeArgs(_)
RECURSIVE TreeOf(_, _)

\* The positions of the tree under reference r of arena ns: a position is the
\* sequence of argument indices leading from r to a node.
Paths(ns, r) ==
    {<<>>} \cup UNION { { <<i>> \o p : p \in Paths(ns, ns[r].args[i]) } :
                        i \in 1..Len(ns[r].args) }

NodeAt(ns, r, p) ==
    IF p = <<>> THEN r ELSE NodeAt(ns, ns[r].args[Head(p)], Tail(p))

\* The generic type arguments of a substitution list.
TypeArgs(substs) ==
    IF substs = <<>> THEN <<>>
    ELSE IF Head(substs) = Region THEN TypeArgs(Tail(substs))
    ELSE <<Head(substs)>> \o TypeArgs(Tail(substs))

\* The host type system's decomposition of a type into its child types.
HostChildren(ty) ==
    CASE ty.sty \in {"TyBool", "TyChar", "TyInt", "TyUint", "TyFloat", "TyStr", "TyNever"}
           -> <<>>
      [] ty.sty \in {"TyRawPtr", "TyRef", "TyArray", "TySlice"}
           -> <<ty.substs[1]>>
      [] ty.sty \in {"TyAdt", "TyFnDef"}
           -> TypeArgs(ty.substs)
      [] ty.sty \in {"TyFnPtr", "TyTuple"}
           -> ty.substs
      [] OTHER
           -> <<>>

HostPaths(ty) ==
    {<<>>} \cup UNION { { <<i>> \o p : p \in HostPaths(HostChildren(ty)[i]) } :
                        i \in 1..Len(HostChildren(ty)) }

HostAt(ty, p) ==
    IF p = <<>> THEN ty ELSE HostAt(HostChildren(ty)[Head(p)], Tail(p))

IsPrefix(p, q) == Len(p) <= Len(q) /\ SubSeq(q, 1, Len(p)) = p

\* p and q branch apart, p to the left of q.
LeftOf(p, q) ==
    \E i \in 1..Len(p) :
        /\ i <= Len(q)
        /\ SubSeq(p, 1, i - 1) = SubSeq(q, 1, i - 1)
        /\ p[i] < q[i]

\* p comes before q in pre-order / in post-order.
PreLess(p, q)  == (p # q /\ IsPrefix(p, q)) \/ LeftOf(p, q)
PostLess(p, q) == (p # q /\ IsPrefix(q, p)) \/ LeftOf(p, q)

PreRank(P, p)  == 1 + Cardinality({ q \in P : PreLess(q, p) })
PostRank(P, p) == 1 + Cardinality({ q \in P : PostLess(q, p) })

\* The tree under r as a value: structural equality of nodes is equality of
\* these values (derive(PartialEq) on LabeledTyS; Ty is interned).
TreeOf(ns, r) ==
    [ ty    |-> ns[r].ty,
      args  |-> [i \in 1..Len(ns[r].args) |-> TreeOf(ns, ns[r].args[i])],
      label |-> ns[r].label ]

IsParam(ns, r) == ns[r].ty.sty = "TyParam"

\* The positions of the tree under r that have no TyParam node above them.
TopPaths(ns, r) ==
    { p \in Paths(ns, r) :
        \A k \in 0..(Len(p) - 1) : ~IsParam(ns, NodeAt(ns, r, SubSeq(p, 1, k))) }

PlaceholderFree(ns, r) == \A p \in Paths(ns, r) : ~IsParam(ns, NodeAt(ns, r, p))

\* nodes ns are still where and what they were in ns2.
Kept(ns, ns2) == Len(ns) <= Len(ns2) /\ \A i \in 1..Len(ns) : ns2[i] = ns[i]

Built == op \in {"label", "label_slice"}

(***************************************************************************)
(* C1.  Every node of a tree built by label mirrors the host type's        *)
(* decomposition: its base type is the host type at the same position and  *)
(* it has one child per host child type, in order (none for the atomic and *)
(* the unsupported kinds, one for pointer, reference, array and slice, the *)
(* generic type arguments for Adt and FnDef, parameters then return type   *)
(* for FnPtr, the elements for a tuple).                                   *)
(***************************************************************************)
Mirrors(ns, r, ty) ==
    /\ Paths(ns, r) = HostPaths(ty)
    /\ \A p \in HostPaths(ty) :
         /\ ns[NodeAt(ns, r, p)].ty = HostAt(ty, p)
         /\ Len(ns[NodeAt(ns, r, p)].args) = Len(HostChildren(HostAt(ty, p)))

C1_StructuralMirroring ==
    Built => /\ Len(ret) = Len(inp.tys)
             /\ \A k \in 1..Len(ret) : Mirrors(nodes, ret[k], inp.tys[k])

C1_Witness ==
    /\ op = "label"
    /\ inp.tys[1] = TAdt("Cow", <<Region, TParam(1), Region, TRef(TChar)>>)
    /\ Len(nodes[ret[1]].args) = 2

(***************************************************************************)
(* C2.  label invokes f once per node of the tree it builds, in pre-order  *)
(* of the host type's structure (a node before its descendants, children   *)
(* left to right), and each node carries the value f returned for it.      *)
(***************************************************************************)
ReturnedBy(f, ty, k) ==
    IF f = "kind_name" THEN Lbl(KindName(ty), 0) ELSE Lbl("", k - 1)

C2_PreOrderLabelling ==
    op = "label" =>
        LET ty == inp.tys[1]
            P  == HostPaths(ty)
        IN  /\ Len(calls) = Cardinality(P)
            /\ Paths(nodes, ret[1]) = P
            /\ \A p \in P :
                 /\ calls[PreRank(P, p)] = HostAt(ty, p)
                 /\ nodes[NodeAt(nodes, ret[1], p)].label
                      = ReturnedBy(inp.f, HostAt(ty, p), PreRank(P, p))
            /\ Cardinality({ NodeAt(nodes, ret[1], p) : p \in P }) = Cardinality(P)

C2_Witness ==
    /\ op = "label"
    /\ inp.f = "counter"
    /\ inp.tys[1] = TFnPtr(<<TInt, TParam(1), TBool>>)
    /\ nodes[ret[1]].label = Lbl("", 0)
    /\ nodes[nodes[ret[1]].args[3]].label = Lbl("", 3)

(***************************************************************************)
(* C3.  for_each_label calls the visitor once per position of the tree (a  *)
(* shared subtree counts once per occurrence), on the node's label, in     *)
(* pre-order, and completes.                                               *)
(***************************************************************************)
C3_LabelCoverage ==
    op = "for_each_label" =>
        LET r == inp.ltys[1]
            P == Paths(nodes, r)
        IN  /\ status = "ok"
            /\ Len(calls) = Cardinality(P)
            /\ \A p \in P : calls[PreRank(P, p)] = nodes[NodeAt(nodes, r, p)].label

\* A traversal of a tree in which one node occurs at two positions.
C3_Witness ==
    /\ op = "for_each_label"
    /\ LET r == inp.ltys[1]
           P == Paths(nodes, r)
       IN  /\ \E p, q \in P : p # q /\ NodeAt(nodes, r, p) = NodeAt(nodes, r, q)
           /\ Len(calls) > Cardinality({ NodeAt(nodes, r, p) : p \in P })

(***************************************************************************)
(* C4.  relabel (and relabel_slice, tree by tree) returns a tree of the    *)
(* same shape as its input: the same positions, at each position the same  *)
(* base type and number of children; for a pure func the label at each     *)
(* position is func of the input's label there, so for_each_label yields   *)
(* func of what it yields on the input, in the same order; the nodes that  *)
(* were in the arena are unchanged.                                        *)
(***************************************************************************)
Incr(l) == Lbl(l.tag, l.n + 1)

Visited(ns, r) == for_each_label(Machine(ns, 0), r).calls

RelabelOf(ns, r, ns2, o, func) ==
    LET P == Paths(ns, r) IN
    /\ o \in 1..Len(ns2)
    /\ Paths(ns2, o) = P
    /\ \A p \in P :
         LET a == ns[NodeAt(ns, r, p)]
             b == ns2[NodeAt(ns2, o, p)]
         IN  /\ b.ty = a.ty
             /\ Len(b.args) = Len(a.args)
             /\ func = "incr" => b.label = Incr(a.label)
    /\ func = "incr" =>
         /\ Len(Visited(ns2, o)) = Len(Visited(ns, r))
         /\ \A k \in 1..Len(Visited(ns, r)) :
              Visited(ns2, o)[k] = Incr(Visited(ns, r)[k])

C4_RelabelFunctor ==
    [][ op' \in {"relabel", "relabel_slice"} =>
          /\ Kept(nodes, nodes')
          /\ Len(ret') = Len(inp'.ltys)
          /\ \A k \in 1..Len(inp'.ltys) :
               k <= Len(ret') /\ RelabelOf(nodes, inp'.ltys[k], nodes', ret'[k], inp'.f)
      ]_vars

C4_Witness ==
    /\ op = "relabel"
    /\ inp.f = "incr"
    /\ Len(nodes[inp.ltys[1]].args) = 2
    /\ Cardinality(Paths(nodes, inp.ltys[1])) >= 4
    /\ nodes[ret[1]].label = Incr(nodes[inp.ltys[1]].label)

(***************************************************************************)
(* Substitution.  r is the tree handed to subst, a the argument list, o    *)
(* the tree returned.                                                      *)
(***************************************************************************)
ParamIdx(ns, x) == ns[x].ty.idx

\* The node at position p of the input is a placeholder and o has, at p, the
\* very node a[idx].
ReplacedAt(ns, r, a, o, p) ==
    /\ ParamIdx(ns, NodeAt(ns, r, p)) < Len(a)
    /\ p \in Paths(ns, o)
    /\ NodeAt(ns, o, p) = a[ParamIdx(ns, NodeAt(ns, r, p)) + 1]

\* The node at position p of the input reappears at p in o.
ReappearsAt(ns, r, o, p) ==
    /\ p \in Paths(ns, o)
    /\ ns[NodeAt(ns, o, p)].ty = ns[NodeAt(ns, r, p)].ty
    /\ ns[NodeAt(ns, o, p)].label = ns[NodeAt(ns, r, p)].label
    /\ Len(ns[NodeAt(ns, o, p)].args) = Len(ns[NodeAt(ns, r, p)].args)

SubstOn(ns, r, a, o, P) ==
    \A p \in P :
        IF IsParam(ns, NodeAt(ns, r, p))
        THEN ReplacedAt(ns, r, a, o, p)
        ELSE ReappearsAt(ns, r, o, p)

InRange(ns, r, a, P) ==
    \A p \in P : IsParam(ns, NodeAt(ns, r, p)) => ParamIdx(ns, NodeAt(ns, r, p)) < Len(a)

(***************************************************************************)
(* C5 as claimed.  If every placeholder of the tree has an index valid in  *)
(* args, subst returns a tree in which every placeholder node of the input *)
(* is replaced by args[idx] and every other node of the input reappears at *)
(* its position with its base type, label and number of children.          *)
(***************************************************************************)
C5_AllPositions ==
    (op = "subst" /\ InRange(nodes, inp.ltys[1], inp.substs, Paths(nodes, inp.ltys[1])))
    => /\ status = "ok"
       /\ Len(ret) = 1
       /\ SubstOn(nodes, inp.ltys[1], inp.substs, ret[1], Paths(nodes, inp.ltys[1]))

(***************************************************************************)
(* C5 amended.  The same, for the positions that have no placeholder node  *)
(* above them: subst replaces a placeholder node whole, whatever hangs     *)
(* below it, so nodes beneath a placeholder neither reappear nor are       *)
(* replaced.                                                               *)
(***************************************************************************)
C5_SubstCorrect ==
    (op = "subst" /\ InRange(nodes, inp.ltys[1], inp.substs, TopPaths(nodes, inp.ltys[1])))
    => /\ status = "ok"
       /\ Len(ret) = 1
       /\ SubstOn(nodes, inp.ltys[1], inp.substs, ret[1], TopPaths(nodes, inp.ltys[1]))

\* A substitution below the root, next to a sibling that is kept.
C5_Witness ==
    /\ op = "subst"
    /\ status = "ok"
    /\ nodes[inp.ltys[1]].ty.sty = "TyAdt"
    /\ Len(nodes[inp.ltys[1]].args) = 2
    /\ nodes[ret[1]].args[2] = inp.substs[1]
    /\ nodes[nodes[ret[1]].args[1]].ty.sty = "TyRef"

(***************************************************************************)
(* C6 as claimed.  If a placeholder anywhere in the tree has an index that *)
(* is not valid in args, subst fails and returns no tree.                  *)
(***************************************************************************)
C6_AnywhereOutOfRange ==
    (op = "subst" /\ ~InRange(nodes, inp.ltys[1], inp.substs, Paths(nodes, inp.ltys[1])))
    => (status = "panic" /\ ret = <<>>)

(***************************************************************************)
(* C6 amended.  If a placeholder that has no placeholder node above it has *)
(* an index that is not valid in args, subst fails with the index out of   *)
(* range and returns no tree.                                              *)
(***************************************************************************)
C6_SubstBounds ==
    (op = "subst" /\ ~InRange(nodes, inp.ltys[1], inp.substs, TopPaths(nodes, inp.ltys[1])))
    => (status = "panic" /\ ret = <<>>)

\* A failure on a placeholder below the root, with a non-empty argument list.
C6_Witness ==
    /\ op = "subst"
    /\ status = "panic"
    /\ ret = <<>>
    /\ Len(inp.substs) >= 1
    /\ ~IsParam(nodes, inp.ltys[1])

(***************************************************************************)
(* C7.  With a label function of the host kind name,                       *)
(* subst(label(Wrapper<T0>), [label(int32), label(bool)]) is structurally  *)
(* equal (base type, children, label) to label(Wrapper<int32>).            *)
(***************************************************************************)
BuiltTree(ty) ==
    LET b == label(Machine(<<>>, 0), ty, "kind_name") IN TreeOf(b.m.nodes, b.r)

C7_Scenario ==
    /\ op = "subst"
    /\ status = "ok"
    /\ Len(inp.substs) = 2
    /\ TreeOf(nodes, inp.ltys[1]) = BuiltTree(Wrapper(TParam(0)))
    /\ TreeOf(nodes, inp.substs[1]) = BuiltTree(TInt)
    /\ TreeOf(nodes, inp.substs[2]) = BuiltTree(TBool)

C7_SubstEqualsInstantiated ==
    C7_Scenario => TreeOf(nodes, ret[1]) = BuiltTree(Wrapper(TInt))

(***************************************************************************)
(* C8 as claimed.  Every node in the arena has a child count that fits the *)
(* kind of its base type: none for an atomic kind, one for a pointer,      *)
(* reference, array or slice.                                              *)
(***************************************************************************)
NodeConsistent(n) ==
    /\ n.ty.sty \in {"TyBool", "TyChar", "TyInt", "TyUint", "TyFloat", "TyStr", "TyNever"}
         => Len(n.args) = 0
    /\ n.ty.sty \in {"TyRawPtr", "TyRef", "TyArray", "TySlice"}
         => Len(n.args) = 1

ArenaConsistent(ns) == \A i \in 1..Len(ns) : NodeConsistent(ns[i])

C8_AlwaysConsistent == ArenaConsistent(nodes)

(***************************************************************************)
(* C8 amended.  label, label_slice, subst, subst_slice, relabel and        *)
(* relabel_slice keep the arena consistent: if every node's child count    *)
(* fits its kind before the operation, so it does after.  mk stores the    *)
(* triple it is given unchecked, and keeps the arena consistent exactly    *)
(* when the child list it is given fits the base type's kind.              *)
(***************************************************************************)
C8_ConsistencyPreserved ==
    [][ ArenaConsistent(nodes) =>
          IF op' = "mk"
          THEN ArenaConsistent(nodes') <=> NodeConsistent(nodes'[Len(nodes')])
          ELSE ArenaConsistent(nodes')
      ]_vars

\* A reference node that relabel rebuilt, in a consistent arena.
C8_Witness ==
    /\ op = "relabel"
    /\ nodes[ret[1]].ty.sty = "TyRef"
    /\ Len(nodes[ret[1]].args) = 1
    /\ ArenaConsistent(nodes)

(***************************************************************************)
(* C9.  relabel calls func once per position of the input tree, in         *)
(* post-order: on the labels of a node's children, left to right, each     *)
(* with its whole subtree, before the node's own label; the root's label   *)
(* comes last.  With a func that numbers its calls, a node of the result   *)
(* carries its position's post-order number.                               *)
(***************************************************************************)
C9_RelabelPostOrder ==
    op = "relabel" =>
        LET r == inp.ltys[1]
            P == Paths(nodes, r)
        IN  /\ Len(calls) = Cardinality(P)
            /\ calls[Len(calls)] = nodes[r].label
            /\ \A p \in P :
                 /\ calls[PostRank(P, p)] = nodes[NodeAt(nodes, r, p)].label
                 /\ inp.f = "counter" =>
                      /\ p \in Paths(nodes, ret[1])
                      /\ nodes[NodeAt(nodes, ret[1], p)].label.n = PostRank(P, p) - 1

\* A call-numbering func on a tree of depth two with two children: the root
\* is numbered last, unlike in the pre-order of label.
C9_Witness ==
    /\ op = "relabel"
    /\ inp.f = "counter"
    /\ Len(nodes[inp.ltys[1]].args) = 2
    /\ Cardinality(Paths(nodes, inp.ltys[1])) = 4
    /\ nodes[inp.ltys[1]].label = Lbl("", 0)
    /\ nodes[ret[1]].label = Lbl("", 3)

(***************************************************************************)
(* C10.  subst is single-pass and shares its arguments: at the position of *)
(* a placeholder (one subst reaches) the result holds the very node        *)
(* args[idx], a node that was in the arena before and is unchanged, with   *)
(* its own label and with the placeholders it contains; so the result is   *)
(* free of placeholders exactly when every argument referenced is.         *)
(***************************************************************************)
Referenced(ns, r, a) ==
    { a[ParamIdx(ns, NodeAt(ns, r, p)) + 1] :
        p \in { q \in TopPaths(ns, r) : IsParam(ns, NodeAt(ns, r, q)) } }

C10_SinglePassSharing ==
    [][ (op' = "subst" /\ status' = "ok") =>
          LET r == inp'.ltys[1]
              a == inp'.substs
              o == ret'[1]
          IN  /\ Kept(nodes, nodes')
              /\ \A p \in TopPaths(nodes, r) :
                   IsParam(nodes, NodeAt(nodes, r, p)) =>
                     /\ ReplacedAt(nodes', r, a, o, p)
                     /\ NodeAt(nodes', o, p) \in 1..Len(nodes)
              /\ PlaceholderFree(nodes', o)
                   <=> \A x \in Referenced(nodes, r, a) : PlaceholderFree(nodes, x)
      ]_vars

\* A referenced argument contains a placeholder: it stays in the result, and
\* substituting the same arguments into the result gives another tree.
C10_Witness ==
    /\ op = "subst"
    /\ status = "ok"
    /\ ~IsParam(nodes, inp.ltys[1])
    /\ ~PlaceholderFree(nodes, ret[1])
    /\ LET again == subst(Machine(nodes, nslices), ret[1], inp.substs)
       IN  /\ again.m.ok
           /\ TreeOf(again.m.nodes, again.r) # TreeOf(nodes, ret[1])

====
